---- MODULE Spec2Model ----
(***************************************************************************)
(* A model of c_iron1.py: a provisioning script run repeatedly on one      *)
(* machine.  One run is the sequence of statements of main(); the script   *)
(* directory and the log directory persist from one run to the next.       *)
(* Text the code inspects character by character (directory entries, the   *)
(* desktop identifier, the typed network identifier, os-release lines) is  *)
(* a sequence of one-character strings.                                    *)
(***************************************************************************)
EXTENDS Integers, Sequences, FiniteSets, TLC

VARIABLES
    pc,                \* position of the current run in main() / the branch
    exitCode,          \* NoExit while running, else the process exit status
    exitReason,        \* which exit site ended the run
    branch,            \* branch selected at line 377: none / initial_setup / update_system
    validated,         \* gate checks that have passed in this run
    dirEntries,        \* os.listdir(SCRIPT_DIR)
    logFiles,          \* names (timestamps) of the *.log files in the log folder
    now,               \* the clock (in seconds) as setup_logging last read it
    os_release,        \* /etc/os-release as this run read it
    desktop_env,       \* XDG_CURRENT_DESKTOP of this run
    missing_apt,       \* local of initial_setup
    missing_flatpaks,  \* local of initial_setup (ids, table order)
    todo_flatpaks,     \* the part of install_flatpak_apps' loop still to run
    network_id,        \* local of perform_zerotier_commands
    apt_present,       \* the commands shutil.which found (lines 306-307)
    installed_flatpaks,\* local of initial_setup: the ids the query listed
    answered,          \* history: the prompts of this run whose input() returned,
                       \* and those whose input() met end of input ("_eof")
    cmds,              \* external commands issued in this run, in order, with their outcome
    lastArg,           \* the arguments of the last of them
    log,               \* entries written through logging in this run
    dirEntries0,       \* history: dirEntries when the run started
    logFiles0,         \* history: logFiles when the run started
    created,           \* history: log file names in creation order, over all runs
    evictFailed,       \* history: some os.remove of an old log file has failed
    collided,          \* history: some run reused the name of an existing log file
    markerWrite,       \* history: outcome of this run's marker write
    prev               \* history: the marker-write outcome of the previous run when that
                       \* run was an initial_setup that ended with status 0, else "none"

vars == <<pc, exitCode, exitReason, branch, validated, dirEntries, logFiles, now,
          os_release, desktop_env, missing_apt, missing_flatpaks, todo_flatpaks,
          network_id, cmds, lastArg, log, dirEntries0, logFiles0, created, evictFailed,
          collided, markerWrite, prev, apt_present, installed_flatpaks, answered>>

-----------------------------------------------------------------------------
(* Bounds *)

\* number of runs that create a log file
MaxRuns == 4
\* number of entries of APT_REQUIREMENTS the model keeps
MaxApt == 2
\* number of entries of FLATPAK_REQUIREMENTS the model keeps
MaxFlatpak == 2

-----------------------------------------------------------------------------
(* Text helpers *)

Min(a, b) == IF a < b THEN a ELSE b

Range(s) == {s[i] : i \in DOMAIN s}

PosOf(s, x) == CHOOSE i \in DOMAIN s : s[i] = x

\* str.startswith
startswith(s, prefix) ==
    /\ Len(s) >= Len(prefix)
    /\ SubSeq(s, 1, Len(prefix)) = prefix

\* `sub in s` for strings
contains(s, sub) ==
    \E i \in 1..(Len(s) - Len(sub) + 1) : SubSeq(s, i, i + Len(sub) - 1) = sub

Whitespace == {" ", "\n", "\t"}

RECURSIVE lstrip(_, _)
lstrip(s, chars) ==
    IF s # <<>> /\ Head(s) \in chars THEN lstrip(Tail(s), chars) ELSE s

RECURSIVE rstrip(_, _)
rstrip(s, chars) ==
    IF s # <<>> /\ s[Len(s)] \in chars THEN rstrip(SubSeq(s, 1, Len(s) - 1), chars) ELSE s

\* str.strip() and str.strip(chars)
strip(s, chars) == rstrip(lstrip(s, chars), chars)

LowerChar(c) ==
    CASE c = "D" -> "d"
      [] c = "E" -> "e"
      [] c = "B" -> "b"
      [] c = "I" -> "i"
      [] c = "A" -> "a"
      [] c = "N" -> "n"
      [] c = "K" -> "k"
      [] c = "U" -> "u"
      [] OTHER -> c

\* str.lower
lower(s) == [i \in DOMAIN s |-> LowerChar(s[i])]

-----------------------------------------------------------------------------
(* Module constants of the script *)

SCRIPT_NAME == <<"c", "_", "i", "r", "o", "n", "1", ".", "p", "y">>
LOG_FOLDER == <<"l", "o", "g">>
GPL_FILENAME == <<"G", "P", "L", "v", "3", ".", "t", "x", "t">>
\* a variant of MARKER_FILE: the name without its leading dot
MARKER_FILE_VISIBLE == <<"s", "e", "t", "u", "p", "_", "c", "o", "m", "p", "l", "e", "t", "e">>
MARKER_FILE == <<".", "s", "e", "t", "u", "p", "_", "c", "o", "m", "p", "l", "e", "t", "e">>

APT_TABLE ==
    << [package |-> "curl", command |-> "curl"],
       [package |-> "gpg", command |-> "gpg"],
       [package |-> "pip", command |-> "pip"],
       [package |-> "python3-pylsp", command |-> "pylsp"],
       [package |-> "virt-manager", command |-> "virt-manager"],
       [package |-> "screenfetch", command |-> "screenfetch"],
       [package |-> "flatpak", command |-> "flatpak"],
       [package |-> "plasma-discover-backend-flatpak",
        command |-> "plasma-discover-backend-flatpak"] >>

APT_REQUIREMENTS == SubSeq(APT_TABLE, 1, Min(MaxApt, Len(APT_TABLE)))

FLATPAK_TABLE ==
    << [name |-> "Discord", id |-> "com.discordapp.Discord"],
       [name |-> "VLC", id |-> "org.videolan.VLC"],
       [name |-> "RetroArch", id |-> "org.libretro.RetroArch"],
       [name |-> "Prism Launcher", id |-> "org.prismlauncher.PrismLauncher"],
       [name |-> "qBittorrent", id |-> "org.qbittorrent.qBittorrent"],
       [name |-> "Flatseal", id |-> "com.github.tchx84.Flatseal"] >>

FLATPAK_REQUIREMENTS == SubSeq(FLATPAK_TABLE, 1, Min(MaxFlatpak, Len(FLATPAK_TABLE)))

-----------------------------------------------------------------------------
(* Inputs of a run *)

NOTES_FILE == <<"n", "o", "t", "e", "s", ".", "t", "x", "t">>

\* what the script directory may hold before the first run
HIDDEN_DIR == <<".", "g", "i", "t">>
InitialDirs ==
    {{SCRIPT_NAME}, {SCRIPT_NAME, NOTES_FILE}, {SCRIPT_NAME, HIDDEN_DIR},
     {SCRIPT_NAME, NOTES_FILE, HIDDEN_DIR}}

LineComment == <<"#", " ", "o", "s", "\n">>
LineIdDebian == <<"I", "D", "=", "d", "e", "b", "i", "a", "n", "\n">>
LineIdDebianCap == <<"I", "D", "=", "D", "e", "b", "i", "a", "n", "\n">>
LineIdUbuntu == <<"I", "D", "=", "u", "b", "u", "n", "t", "u", "\n">>
LineIdLike == <<"I", "D", "_", "L", "I", "K", "E", "=", "u", "b", "u", "n", "t", "u", "\n">>
LineVersion12 == <<"V", "E", "R", "S", "I", "O", "N", "_", "I", "D", "=", "\"", "1", "2", "\"", "\n">>
LineVersion11 == <<"V", "E", "R", "S", "I", "O", "N", "_", "I", "D", "=", "\"", "1", "1", "\"", "\n">>

\* contents of /etc/os-release a run may meet
OsReleaseLines ==
    { <<LineComment, LineIdDebian, LineIdLike, LineVersion12>>,
      <<LineIdDebianCap, LineVersion12>>,
      <<LineIdUbuntu, LineVersion12>>,
      <<LineIdDebian, LineVersion11>>,
      <<LineComment>> }

\* what open("/etc/os-release").readlines() gives: the lines, or an exception
Unread == [status |-> "unread", lines |-> <<>>]
Unreadable == [status |-> "unreadable", lines |-> <<>>]
OsReleaseInputs ==
    {Unreadable} \cup {[status |-> "read", lines |-> l] : l \in OsReleaseLines}

KDE == <<"K", "D", "E">>
Plasma == <<"P", "l", "a", "s", "m", "a">>

\* values of XDG_CURRENT_DESKTOP a run may meet (<<>>: unset)
DesktopInputs == {<<>>, KDE, <<"X", ":", "K", "D", "E">>, Plasma, <<"G", "N", "O", "M", "E">>}

\* text typed at the network-identifier prompt
NetworkIdInputs == {<<>>, <<" ">>, <<"a">>, <<" ", "a", " ">>}

\* exit status of an external command, or the OSError of one that cannot start
Outcomes == {"ok", "nonzero", "oserror"}

NoExit == 0 - 1

-----------------------------------------------------------------------------
(* Pure parts of the gate and of the Log Manager *)

\* a variant of verify_directory_contents: hidden entries are not filtered out
verify_directory_contents_unfiltered(listing) ==
    LET allowed == {SCRIPT_NAME, LOG_FOLDER, GPL_FILENAME}
    IN  \A item \in listing : item \in allowed

\* verify_directory_contents: TRUE when the check passes
verify_directory_contents(listing) ==
    LET allowed == {SCRIPT_NAME, LOG_FOLDER, GPL_FILENAME}
        contents == {item \in listing : ~startswith(item, <<".">>)}
    IN  \A item \in contents : item \in allowed

\* key, val = line.strip().split("=", 1); val.strip('"')
ParseLine(line) ==
    LET s == strip(line, Whitespace)
        i == CHOOSE k \in DOMAIN s : s[k] = "=" /\ \A j \in 1..(k - 1) : s[j] # "="
    IN  [key |-> SubSeq(s, 1, i - 1), val |-> strip(SubSeq(s, i + 1, Len(s)), {"\""})]

\* os_info.get(key, ""), os_info being filled line by line (a later line wins)
os_info_get(lines, key) ==
    LET hits == {i \in DOMAIN lines : contains(lines[i], <<"=">>) /\ ParseLine(lines[i]).key = key}
    IN  IF hits = {} THEN <<>>
        ELSE ParseLine(lines[CHOOSE i \in hits : \A j \in hits : j <= i]).val

\* a variant of HostIdentityOk: the two comparisons joined by `and`
HostIdentityOkEither(lines) ==
    ~( lower(os_info_get(lines, <<"I", "D">>)) # <<"d", "e", "b", "i", "a", "n">>
       /\ os_info_get(lines, <<"V", "E", "R", "S", "I", "O", "N", "_", "I", "D">>) # <<"1", "2">> )

\* the host-identity test of verify_os_and_desktop: TRUE when it passes
HostIdentityOk(lines) ==
    ~( lower(os_info_get(lines, <<"I", "D">>)) # <<"d", "e", "b", "i", "a", "n">>
       \/ os_info_get(lines, <<"V", "E", "R", "S", "I", "O", "N", "_", "I", "D">>) # <<"1", "2">> )

\* the desktop test of verify_os_and_desktop: TRUE when it passes
DesktopOk(env) == contains(env, KDE) \/ contains(env, Plasma)

\* the retention threshold of setup_logging
LogRetention == 3

\* a variant of NeedsEviction: the comparison off by one
NeedsEvictionStrict(files) == Cardinality(files) > LogRetention

\* len(log_files) >= 3
NeedsEviction(files) == Cardinality(files) >= LogRetention

\* log_files[0] after sorting by modification time: the clock never runs
\* backwards and a file is written only by the run that creates it, so the
\* order of modification times is the order of the names
Oldest(files) == CHOOSE f \in files : \A g \in files : f <= g

\* a variant of SelectBranch: the test of line 377 without its `not`
SelectBranchInverted(listing) ==
    IF MARKER_FILE \in listing THEN "initial_setup" ELSE "update_system"

\* which branch line 377 selects
SelectBranch(listing) ==
    IF MARKER_FILE \notin listing THEN "initial_setup" ELSE "update_system"

\* a variant of run_subprocess: subprocess.run without check=True
run_subprocess_unchecked(rc) ==
    CASE rc = "ok" -> "return"
      [] rc = "nonzero" -> "return"
      [] rc = "oserror" -> "raise"

\* what run_subprocess does with the outcome of subprocess.run(check=True)
run_subprocess(rc) ==
    CASE rc = "ok" -> "return"
      [] rc = "nonzero" -> "sys_exit"
      [] rc = "oserror" -> "raise"

\* a variant of main_catches: a bare `except:`
main_catches_everything(exc) == TRUE

\* whether main's `except Exception` catches what leaves the branch
main_catches(exc) == exc \in {"OSError", "EOFError"}

\* a variant of IsEmptyId: the test of line 284 left out
IsEmptyIdNever(id) == FALSE

\* `if not network_id` of perform_zerotier_commands, on the stripped input
IsEmptyId(id) == id = <<>>

-----------------------------------------------------------------------------
(* Statement order *)

\* variants of main_steps: setup_logging called before the gate, and between
\* its checks
main_steps_log_first == <<"disclaimer", "gpl", "logging", "hygiene", "osdesk", "select">>
main_steps_log_early == <<"disclaimer", "gpl", "hygiene", "logging", "osdesk", "select">>

\* the statements of main (lines 361-377), in order
main_steps == <<"disclaimer", "gpl", "hygiene", "osdesk", "logging", "select">>

\* a variant of initial_steps: the marker written before the overlay steps
initial_steps_marker_early ==
    <<"probe", "apt_update", "apt_upgrade", "apt_install", "remote_add",
      "flatpak_list", "flatpak_install", "marker", "zerotier", "prompt_id", "join",
      "reboot_prompt", "reboot">>

\* a variant of initial_steps: the reboot before the marker is written
initial_steps_reboot_early ==
    <<"probe", "apt_update", "apt_upgrade", "apt_install", "remote_add",
      "flatpak_list", "flatpak_install", "zerotier", "prompt_id", "join",
      "reboot_prompt", "reboot", "marker">>

\* the statements of initial_setup (lines 305-346), in order
initial_steps ==
    <<"probe", "apt_update", "apt_upgrade", "apt_install", "remote_add",
      "flatpak_list", "flatpak_install", "zerotier", "prompt_id", "join",
      "marker", "reboot_prompt", "reboot">>

\* a variant of update_steps: the sandboxed applications updated first
update_steps_flatpak_first == <<"u_flatpak_update", "u_apt_update", "u_apt_upgrade">>

\* the statements of update_system (lines 352-353, 244-245, 250), in order
update_steps == <<"u_apt_update", "u_apt_upgrade", "u_flatpak_update">>

StepsOf(step) ==
    IF step \in Range(main_steps) THEN main_steps
    ELSE IF step \in Range(initial_steps) THEN initial_steps
    ELSE update_steps

\* the statement after `step`, or "return" after the last one of its function
Succ(step) ==
    LET steps == StepsOf(step)
        i == PosOf(steps, step)
    IN  IF i < Len(steps) THEN steps[i + 1] ELSE "return"

GateChecks == {"hygiene", "identity", "desktop"}

-----------------------------------------------------------------------------
(* Control helpers *)

ctl == <<pc, exitCode, exitReason>>
files == <<dirEntries, logFiles>>
env == <<now, os_release, desktop_env>>
locals == <<missing_apt, missing_flatpaks, todo_flatpaks, network_id, apt_present,
            installed_flatpaks>>
runStart == <<dirEntries0, logFiles0, prev>>
runHist == <<runStart, markerWrite, answered>>
logHist == <<created, evictFailed, collided>>
issued == <<cmds, lastArg>>

\* a variant of ExitStatus: the empty-identifier abort written as sys.exit()
ExitStatusBareExit(reason) == IF reason \in {"done", "empty_network_id"} THEN 0 ELSE 1

\* the status the process ends with at each exit site: 0 when main returns,
\* 1 at every sys.exit(1) and when the interpreter ends on an uncaught exception
ExitStatus(reason) == IF reason = "done" THEN 0 ELSE 1

\* the process ends
Exit(reason) ==
    /\ pc' = "exited"
    /\ exitCode' = ExitStatus(reason)
    /\ exitReason' = reason

Goto(step) ==
    /\ pc' = step
    /\ UNCHANGED <<exitCode, exitReason>>

\* fall through to the next statement; returning from the branch returns
\* from main, and the interpreter exits with status 0
Advance(step) ==
    IF Succ(step) = "return" THEN Exit("done") ELSE Goto(Succ(step))

\* an exception leaves the branch and meets the handler of main (lines
\* 383-387); `entries` is what was logged before it was raised
Leave(exc, reason, entries) ==
    IF main_catches(exc)
    THEN /\ log' = log \o entries \o <<"unexpected", "traceback">>
         /\ Exit("unexpected")
    ELSE /\ log' = log \o entries
         /\ Exit(reason)

\* run_subprocess(command) as the statement `step`
RunCommand(step, op, arg) ==
    /\ pc = step
    /\ \E rc \in Outcomes :
         /\ cmds' = Append(cmds, [op |-> op, rc |-> rc])
         /\ lastArg' = arg
         /\ CASE run_subprocess(rc) = "return" -> Advance(step) /\ log' = log
              [] run_subprocess(rc) = "sys_exit" ->
                   Leave("SystemExit", "command_failed", <<"cmd_error", "traceback">>)
              [] run_subprocess(rc) = "raise" -> Leave("OSError", "command_failed", <<>>)

-----------------------------------------------------------------------------
(* The state before the first run *)

Init ==
    /\ pc = "idle"
    /\ exitCode = NoExit
    /\ exitReason = "none"
    /\ branch = "none"
    /\ validated = {}
    /\ dirEntries \in InitialDirs
    /\ logFiles = {}
    /\ now = 0
    /\ os_release = Unread
    /\ desktop_env = <<>>
    /\ missing_apt = <<>>
    /\ missing_flatpaks = <<>>
    /\ todo_flatpaks = <<>>
    /\ network_id = <<>>
    /\ apt_present = {}
    /\ installed_flatpaks = {}
    /\ answered = {}
    /\ cmds = <<>>
    /\ lastArg = <<>>
    /\ log = <<>>
    /\ dirEntries0 = dirEntries
    /\ logFiles0 = {}
    /\ created = <<>>
    /\ evictFailed = FALSE
    /\ collided = FALSE
    /\ markerWrite = "none"
    /\ prev = "none"

-----------------------------------------------------------------------------
(* main, up to branch selection *)

\* the script is started
StartRun ==
    /\ pc \in {"idle", "exited"}
    /\ Len(created) < MaxRuns
    /\ pc' = Head(main_steps)
    /\ exitCode' = NoExit
    /\ exitReason' = "none"
    /\ branch' = "none"
    /\ validated' = {}
    /\ os_release' = Unread
    /\ desktop_env' = <<>>
    /\ missing_apt' = <<>>
    /\ missing_flatpaks' = <<>>
    /\ todo_flatpaks' = <<>>
    /\ network_id' = <<>>
    /\ apt_present' = {}
    /\ installed_flatpaks' = {}
    /\ answered' = {}
    /\ cmds' = <<>>
    /\ lastArg' = <<>>
    /\ log' = <<>>
    /\ dirEntries0' = dirEntries
    /\ logFiles0' = logFiles
    /\ markerWrite' = "none"
    /\ prev' = IF branch = "initial_setup" /\ exitCode = 0 THEN markerWrite ELSE "none"
    /\ UNCHANGED <<files, now, logHist>>

\* print_disclaimer_and_wait: input() returns, or raises EOFError, which
\* nothing catches at this point
PrintDisclaimerAndWait ==
    /\ pc = "disclaimer"
    /\ \E eof \in BOOLEAN :
         IF eof THEN Exit("uncaught") /\ answered' = answered \cup {"disclaimer_eof"}
         ELSE Advance("disclaimer") /\ answered' = answered \cup {"disclaimer"}
    /\ UNCHANGED <<branch, validated, files, env, locals, issued, log, runStart,
                   markerWrite, logHist>>

\* the script directory after ensure_gpl_file_exists met outcome r
DownloadGpl(listing, r) ==
    IF r \in {"ok", "fail_write"} THEN listing \cup {GPL_FILENAME} ELSE listing

\* ensure_gpl_file_exists
EnsureGplFileExists ==
    /\ pc = "gpl"
    /\ IF GPL_FILENAME \in dirEntries
       THEN /\ Advance("gpl")
            /\ UNCHANGED dirEntries
       ELSE \E r \in {"ok", "fail_fetch", "fail_write"} :
              /\ dirEntries' = DownloadGpl(dirEntries, r)
              /\ IF r = "ok" THEN Advance("gpl") ELSE Exit("gpl_download")
    /\ UNCHANGED <<branch, validated, logFiles, env, locals, issued, log, runHist, logHist>>

\* verify_directory_contents
VerifyDirectoryContents ==
    /\ pc = "hygiene"
    /\ IF verify_directory_contents(dirEntries)
       THEN /\ validated' = validated \cup {"hygiene"}
            /\ Advance("hygiene")
       ELSE /\ Exit("hygiene")
            /\ UNCHANGED validated
    /\ UNCHANGED <<branch, files, env, locals, issued, log, runHist, logHist>>

\* verify_os_and_desktop
VerifyOsAndDesktop ==
    /\ pc = "osdesk"
    /\ \E f \in OsReleaseInputs, d \in DesktopInputs :
         /\ os_release' = f
         /\ IF f = Unreadable
            THEN /\ Exit("os_unreadable")
                 /\ UNCHANGED <<validated, desktop_env>>
            ELSE IF ~HostIdentityOk(f.lines)
            THEN /\ Exit("os_identity")
                 /\ UNCHANGED <<validated, desktop_env>>
            ELSE /\ desktop_env' = d
                 /\ IF ~DesktopOk(d)
                    THEN /\ Exit("desktop")
                         /\ validated' = validated \cup {"identity"}
                    ELSE /\ Advance("osdesk")
                         /\ validated' = validated \cup {"identity", "desktop"}
    /\ UNCHANGED <<branch, files, now, locals, issued, log, runHist, logHist>>

\* a variant of after_remove: os.remove outside any try
after_remove_unguarded(removed) == IF removed THEN "continue" ELSE "raise"

\* lines 183-186: os.remove(log_files[0]) inside try/except Exception; a
\* failure prints a warning and setup_logging goes on
after_remove(removed) == "continue"

\* setup_logging: the log folder is made, the oldest log file is removed
\* when three or more exist (a failure to remove it is only a warning), and
\* the run's log file, named by the second the clock shows, is opened with
\* mode "w" (the clock may still show the second of the previous log file)
SetupLogging ==
    /\ pc = "logging"
    /\ dirEntries' = dirEntries \cup {LOG_FOLDER}
    /\ \E removed \in BOOLEAN, tick \in {0, 1} :
         LET evict == NeedsEviction(logFiles)
             kept == IF evict /\ removed THEN logFiles \ {Oldest(logFiles)} ELSE logFiles
         IN  /\ (~evict => removed)
             /\ (created = <<>> => tick = 1)
             /\ now + tick <= MaxRuns
             /\ evictFailed' = (evictFailed \/ (evict /\ ~removed))
             /\ IF evict /\ after_remove(removed) = "raise"
                THEN /\ Exit("uncaught")
                     /\ UNCHANGED <<now, collided, logFiles, created>>
                ELSE /\ now' = now + tick
                     /\ collided' = (collided \/ now' \in kept)
                     /\ logFiles' = kept \cup {now'}
                     /\ created' = Append(created, now')
                     /\ Advance("logging")
    /\ os_release' = Unread
    /\ desktop_env' = <<>>
    /\ UNCHANGED <<branch, validated, locals, issued, log, runHist>>

\* lines 377-382 of main
SelectAndEnterBranch ==
    /\ pc = "select"
    /\ branch' = SelectBranch(dirEntries)
    /\ Goto(IF SelectBranch(dirEntries) = "initial_setup"
            THEN Head(initial_steps) ELSE Head(update_steps))
    /\ UNCHANGED <<validated, files, env, locals, issued, log, runHist, logHist>>

-----------------------------------------------------------------------------
(* initial_setup *)

\* a variant of MissingApt: the test of line 307 without its `not`
MissingAptInverted(present) ==
    LET Found(req) == req.command \in present
        sel == SelectSeq(APT_REQUIREMENTS, Found)
    IN  [i \in 1..Len(sel) |-> sel[i].package]

\* lines 305-308: the packages whose command shutil.which does not find
MissingApt(present) ==
    LET Absent(req) == req.command \notin present
        sel == SelectSeq(APT_REQUIREMENTS, Absent)
    IN  [i \in 1..Len(sel) |-> sel[i].package]

\* a variant of MissingFlatpaks: the test of line 327 without its `not`
MissingFlatpaksInverted(installed) ==
    LET Listed(req) == req.id \in installed
        sel == SelectSeq(FLATPAK_REQUIREMENTS, Listed)
    IN  [i \in 1..Len(sel) |-> sel[i].id]

\* an application the query may list that the table does not name
OTHER_APP_ID == "org.kde.kate"

\* what `flatpak list --app --columns=application` may print
InstalledInputs ==
    SUBSET ({FLATPAK_REQUIREMENTS[i].id : i \in DOMAIN FLATPAK_REQUIREMENTS} \cup {OTHER_APP_ID})

\* lines 325-328: the ids of the table that the query did not list
MissingFlatpaks(installed) ==
    LET Absent(req) == req.id \notin installed
        sel == SelectSeq(FLATPAK_REQUIREMENTS, Absent)
    IN  [i \in 1..Len(sel) |-> sel[i].id]

ProbeAptRequirements ==
    /\ pc = "probe"
    /\ \E present \in SUBSET {APT_REQUIREMENTS[i].command : i \in DOMAIN APT_REQUIREMENTS} :
         /\ apt_present' = present
         /\ missing_apt' = MissingApt(present)
    /\ Advance("probe")
    /\ UNCHANGED <<branch, validated, files, env, missing_flatpaks, todo_flatpaks,
                   network_id, installed_flatpaks, issued, log, runHist, logHist>>

AptUpdate ==
    /\ RunCommand("apt_update", "apt_update", <<>>)
    /\ UNCHANGED <<branch, validated, files, env, locals, runHist, logHist>>

AptUpgrade ==
    /\ RunCommand("apt_upgrade", "apt_upgrade", <<>>)
    /\ UNCHANGED <<branch, validated, files, env, locals, runHist, logHist>>

\* lines 235-239
AptInstall ==
    /\ pc = "apt_install"
    /\ IF missing_apt # <<>>
       THEN RunCommand("apt_install", "apt_install", missing_apt)
       ELSE /\ Advance("apt_install")
            /\ UNCHANGED <<issued, log>>
    /\ UNCHANGED <<branch, validated, files, env, locals, runHist, logHist>>

\* add_flathub_repo; missing_apt and the probe results are not read again
\* and are dropped here
AddFlathubRepo ==
    /\ RunCommand("remote_add", "flatpak_remote_add", <<>>)
    /\ missing_apt' = <<>>
    /\ apt_present' = {}
    /\ UNCHANGED <<branch, validated, files, env, missing_flatpaks, todo_flatpaks,
                   network_id, installed_flatpaks, runHist, logHist>>

\* lines 313-328: the query is run directly, not through run_subprocess; a
\* non-zero exit is logged and read as "nothing installed"
ListFlatpaks ==
    /\ pc = "flatpak_list"
    /\ \E rc \in Outcomes :
         /\ cmds' = Append(cmds, [op |-> "flatpak_list", rc |-> rc])
         /\ lastArg' = <<>>
         /\ CASE rc = "ok" ->
                   /\ \E installed \in InstalledInputs :
                        /\ installed_flatpaks' = installed
                        /\ missing_flatpaks' = MissingFlatpaks(installed)
                        /\ todo_flatpaks' = MissingFlatpaks(installed)
                   /\ log' = log
                   /\ Advance("flatpak_list")
              [] rc = "nonzero" ->
                   /\ installed_flatpaks' = {}
                   /\ missing_flatpaks' = MissingFlatpaks({})
                   /\ todo_flatpaks' = MissingFlatpaks({})
                   /\ log' = Append(log, "list_error")
                   /\ Advance("flatpak_list")
              [] rc = "oserror" ->
                   /\ Leave("OSError", "command_failed", <<>>)
                   /\ UNCHANGED <<missing_flatpaks, todo_flatpaks, installed_flatpaks>>
    /\ UNCHANGED <<branch, validated, files, env, missing_apt, network_id, apt_present,
                   runHist, logHist>>

\* lines 330-334 and install_flatpak_apps: one command per missing id
InstallFlatpakApps ==
    /\ pc = "flatpak_install"
    /\ IF todo_flatpaks = <<>>
       THEN /\ Advance("flatpak_install")
            /\ UNCHANGED <<issued, log, todo_flatpaks>>
       ELSE \E rc \in Outcomes :
              /\ cmds' = Append(cmds, [op |-> "flatpak_install", rc |-> rc])
              /\ lastArg' = <<Head(todo_flatpaks)>>
              /\ CASE run_subprocess(rc) = "return" ->
                        /\ todo_flatpaks' = Tail(todo_flatpaks)
                        /\ log' = log
                        /\ UNCHANGED ctl
                   [] run_subprocess(rc) = "sys_exit" ->
                        /\ Leave("SystemExit", "command_failed", <<"cmd_error", "traceback">>)
                        /\ UNCHANGED todo_flatpaks
                   [] run_subprocess(rc) = "raise" ->
                        /\ Leave("OSError", "command_failed", <<>>)
                        /\ UNCHANGED todo_flatpaks
    /\ UNCHANGED <<branch, validated, files, env, missing_apt, missing_flatpaks,
                   network_id, apt_present, installed_flatpaks, runHist, logHist>>

\* exit status of the shell line of perform_zerotier_commands:
\*   curl .. | gpg --import && if z=$(curl .. | gpg); then echo "$z" | sudo bash; fi
ZerotierStatus(import, gpg, bash) ==
    IF import # "ok" THEN "nonzero"
    ELSE IF gpg = "ok" THEN (IF bash = "ok" THEN "ok" ELSE "nonzero")
    ELSE "ok"

\* what the shell line did: <<key import, gpg status, output z, sudo bash>>
ZerotierTrace(import, gpg, z, bash) ==
    IF import # "ok" THEN <<import, "skipped", "skipped", "skipped">>
    ELSE IF gpg = "ok" THEN <<import, gpg, z, bash>>
    ELSE <<import, gpg, z, "skipped">>

\* lines 276-281; missing_flatpaks and installed_flatpaks are not read again
\* and are dropped here
ZerotierBootstrap ==
    /\ pc = "zerotier"
    /\ \/ \E import \in {"ok", "fail"}, gpg \in {"ok", "fail"},
             z \in {"empty", "nonempty"}, bash \in {"ok", "fail"} :
            LET rc == ZerotierStatus(import, gpg, bash) IN
            /\ cmds' = Append(cmds, [op |-> "zerotier_bootstrap", rc |-> rc])
            /\ lastArg' = ZerotierTrace(import, gpg, z, bash)
            /\ IF run_subprocess(rc) = "return"
               THEN Advance("zerotier") /\ log' = log
               ELSE Leave("SystemExit", "command_failed", <<"cmd_error", "traceback">>)
       \/ /\ cmds' = Append(cmds, [op |-> "zerotier_bootstrap", rc |-> "oserror"])
          /\ lastArg' = <<"skipped", "skipped", "skipped", "skipped">>
          /\ Leave("OSError", "command_failed", <<>>)
    /\ missing_flatpaks' = <<>>
    /\ installed_flatpaks' = {}
    /\ UNCHANGED <<branch, validated, files, env, missing_apt, todo_flatpaks,
                   network_id, apt_present, runHist, logHist>>

\* lines 283-286
PromptNetworkId ==
    /\ pc = "prompt_id"
    /\ \/ \E typed \in NetworkIdInputs :
            /\ network_id' = strip(typed, Whitespace)
            /\ IF IsEmptyId(strip(typed, Whitespace))
               THEN Leave("SystemExit", "empty_network_id", <<>>)
               ELSE Advance("prompt_id") /\ log' = log
            /\ answered' = answered \cup {"network_id"}
       \/ /\ Leave("EOFError", "unexpected", <<>>)
          /\ answered' = answered \cup {"network_id_eof"}
          /\ UNCHANGED network_id
    /\ UNCHANGED <<branch, validated, files, env, missing_apt, missing_flatpaks,
                   todo_flatpaks, apt_present, installed_flatpaks, issued, runStart,
                   markerWrite, logHist>>

JoinNetwork ==
    /\ RunCommand("join", "zerotier_join", network_id)
    /\ UNCHANGED <<branch, validated, files, env, locals, runHist, logHist>>

\* the script directory after lines 338-340 met outcome r: open(.., "w")
\* creates the file even when the write that follows fails
WriteMarker(listing, r) ==
    IF r \in {"ok", "fail_write"} THEN listing \cup {MARKER_FILE} ELSE listing

\* a variant of after_marker: the write outside any try
after_marker_unguarded(r) == IF r = "ok" THEN "continue" ELSE "raise"

\* lines 338-343: the write is inside try/except Exception; a failure is
\* logged, a warning printed, and initial_setup goes on
after_marker(r) == "continue"

\* lines 338-343
WriteCompletionMarker ==
    /\ pc = "marker"
    /\ \E r \in {"ok", "fail_open", "fail_write"} :
         /\ markerWrite' = r
         /\ dirEntries' = WriteMarker(dirEntries, r)
         /\ IF after_marker(r) = "continue"
            THEN /\ log' = IF r = "ok" THEN log ELSE Append(log, "marker_error")
                 /\ Advance("marker")
            ELSE Leave("OSError", "unexpected", <<>>)
    /\ UNCHANGED <<branch, validated, logFiles, env, locals, issued,
                   runStart, answered, logHist>>

\* line 345
PromptReboot ==
    /\ pc = "reboot_prompt"
    /\ \E eof \in BOOLEAN :
         IF eof THEN /\ Leave("EOFError", "unexpected", <<>>)
                     /\ answered' = answered \cup {"reboot_eof"}
         ELSE /\ Advance("reboot_prompt")
              /\ log' = log
              /\ answered' = answered \cup {"reboot"}
    /\ UNCHANGED <<branch, validated, files, env, locals, issued, runStart,
                   markerWrite, logHist>>

Reboot ==
    /\ RunCommand("reboot", "reboot", <<>>)
    /\ UNCHANGED <<branch, validated, files, env, locals, runHist, logHist>>

-----------------------------------------------------------------------------
(* update_system *)

\* a variant of UpdateSystemFiles: the marker removed to force a new setup
UpdateSystemFilesReset(listing) == listing \ {MARKER_FILE}

\* the script directory after update_system: it touches no file of it
UpdateSystemFiles(listing) == listing

UpdateAptUpdate ==
    /\ RunCommand("u_apt_update", "apt_update", <<>>)
    /\ dirEntries' = UpdateSystemFiles(dirEntries)
    /\ UNCHANGED <<branch, validated, logFiles, env, locals, runHist, logHist>>

UpdateAptUpgrade ==
    /\ RunCommand("u_apt_upgrade", "apt_upgrade", <<>>)
    /\ dirEntries' = UpdateSystemFiles(dirEntries)
    /\ UNCHANGED <<branch, validated, logFiles, env, locals, runHist, logHist>>

UpdateFlatpakPackages ==
    /\ RunCommand("u_flatpak_update", "flatpak_update", <<>>)
    /\ dirEntries' = UpdateSystemFiles(dirEntries)
    /\ UNCHANGED <<branch, validated, logFiles, env, locals, runHist, logHist>>

-----------------------------------------------------------------------------

Next ==
    \/ StartRun
    \/ PrintDisclaimerAndWait
    \/ EnsureGplFileExists
    \/ VerifyDirectoryContents
    \/ VerifyOsAndDesktop
    \/ SetupLogging
    \/ SelectAndEnterBranch
    \/ ProbeAptRequirements
    \/ AptUpdate
    \/ AptUpgrade
    \/ AptInstall
    \/ AddFlathubRepo
    \/ ListFlatpaks
    \/ InstallFlatpakApps
    \/ ZerotierBootstrap
    \/ PromptNetworkId
    \/ JoinNetwork
    \/ WriteCompletionMarker
    \/ PromptReboot
    \/ Reboot
    \/ UpdateAptUpdate
    \/ UpdateAptUpgrade
    \/ UpdateFlatpakPackages

Spec == Init /\ [][Next]_vars

-----------------------------------------------------------------------------
(* Vocabulary of the properties *)

MarkerPresent == MARKER_FILE \in dirEntries
MarkerAtStart == MARKER_FILE \in dirEntries0

\* the command `op` has been issued in this run
Issued(op) == \E i \in DOMAIN cmds : cmds[i].op = op

\* the run ended at one of the gate's exit sites
GateFailed == exitReason \in {"hygiene", "os_unreadable", "os_identity", "desktop"}

\* the last k names of `created`, as a set
MostRecent(k) == {created[i] : i \in (Len(created) - k + 1)..Len(created)}

-----------------------------------------------------------------------------
(* Properties *)

\* C1 as stated: in every run that passes the gate initial_setup is selected
\* exactly when the marker is absent and update_system exactly when it is
\* present; after a run in which initial_setup ends with status 0 the marker
\* is present, and the next run selects update_system.
C1_AsStated ==
    /\ branch = "initial_setup" => ~MarkerAtStart
    /\ branch = "update_system" => MarkerAtStart
    /\ (pc = "exited" /\ branch = "initial_setup" /\ exitCode = 0) => MarkerPresent
    /\ (prev # "none" /\ branch # "none") => branch = "update_system"

\* C1 amended: the branch follows the marker (absent: initial_setup, present:
\* update_system, in every run that reaches line 377, which only runs that
\* passed the gate do); after an initial_setup that ends with status 0 the
\* marker is present, and the next run selects update_system, unless the
\* marker file could not be created: then the run still ends with status 0,
\* the marker is absent and the next run selects initial_setup again.
C1_BranchFollowsMarker ==
    /\ branch = "initial_setup" => ~MarkerAtStart
    /\ branch = "update_system" => MarkerAtStart
    /\ pc \in {Head(initial_steps), Head(update_steps)} =>
         (branch = "initial_setup" <=> ~MarkerPresent)
    /\ branch # "none" => validated = GateChecks
    /\ (pc \notin {"idle", "exited"} /\ pc \notin Range(main_steps)) => branch # "none"
    /\ (pc = "exited" /\ branch = "initial_setup" /\ exitCode = 0) =>
         (MarkerPresent <=> markerWrite # "fail_open")
    /\ (prev \in {"ok", "fail_write"} /\ branch # "none") => branch = "update_system"
    /\ (prev = "fail_open" /\ branch # "none") => branch = "initial_setup"

\* C1 witness: the run after a completed initial_setup has selected update_system
C1_Witness == prev = "ok" /\ branch = "update_system" /\ pc = Head(update_steps)

\* C2: the marker, once present, stays: no step removes it, and no run that
\* starts with the marker present has it absent at any later point.
C2_MarkerMonotonic ==
    /\ [](MarkerAtStart => MarkerPresent)
    /\ [][MarkerPresent => MarkerPresent']_vars

\* C2 witness: an update_system run aborted by a failing command, marker kept
C2_Witness ==
    /\ pc = "exited"
    /\ branch = "update_system"
    /\ exitReason = "command_failed"
    /\ MarkerAtStart
    /\ MarkerPresent

\* C3 as stated: in any run in which the marker becomes present the branch is
\* initial_setup and the run does not exit with status 1.
C3_AsStated ==
    (MarkerPresent /\ ~MarkerAtStart) => (branch = "initial_setup" /\ exitCode # 1)

\* C3 amended: the marker becomes present only in an initial_setup run, at
\* the marker-write step, which is reached only after the gate has passed and
\* every command up to and including the network join has returned (the
\* installed-application query may have exited non-zero); the run may still
\* exit with status 1 afterwards, but only at the reboot prompt or the reboot
\* command.  Gate-failing runs and update_system runs never create it.
C3_MarkerOnlyAfterJoin ==
    (MarkerPresent /\ ~MarkerAtStart) =>
        /\ branch = "initial_setup"
        /\ validated = GateChecks
        /\ markerWrite \in {"ok", "fail_write"}
        /\ \E j \in DOMAIN cmds :
             /\ cmds[j] = [op |-> "zerotier_join", rc |-> "ok"]
             /\ \A i \in 1..j : cmds[i].rc = "ok" \/ cmds[i] = [op |-> "flatpak_list", rc |-> "nonzero"]
             /\ exitCode = 1 =>
                  \/ Len(cmds) = j /\ exitReason = "unexpected"
                  \/ Len(cmds) = j + 1 /\ cmds[j + 1].op = "reboot" /\ cmds[j + 1].rc # "ok"

\* C3 witness: the marker was written in this run and the reboot command failed
C3_Witness ==
    /\ MarkerPresent
    /\ ~MarkerAtStart
    /\ exitCode = 1
    /\ exitReason = "command_failed"

\* C4 as stated: a non-zero exit of any external command of either branch is
\* logged, ends the process with status 1, and nothing of the run follows it.
C4_AsStated ==
    \A i \in DOMAIN cmds :
        cmds[i].rc = "nonzero" =>
            /\ i = Len(cmds)
            /\ pc = "exited"
            /\ exitCode = 1
            /\ log # <<>>

\* C4 amended: a non-zero exit of any command issued through the Command
\* Runner (all the listed ones but the installed-application query) is
\* logged with a trace and ends the process with status 1 at once: it is the
\* last command of the run and the marker is not written after it.  A
\* non-zero exit of the installed-application query is logged and the run
\* goes on, with every required application taken as missing.
C4_FailFast ==
    \A i \in DOMAIN cmds :
        cmds[i].rc = "nonzero" =>
            IF cmds[i].op = "flatpak_list"
            THEN /\ "list_error" \in Range(log)
                 /\ i = Len(cmds) =>
                      /\ exitCode = NoExit
                      /\ pc = "flatpak_install"
                      /\ missing_flatpaks = [k \in DOMAIN FLATPAK_REQUIREMENTS |->
                                               FLATPAK_REQUIREMENTS[k].id]
            ELSE /\ i = Len(cmds)
                 /\ pc = "exited"
                 /\ exitCode = 1
                 /\ exitReason = "command_failed"
                 /\ Len(log) >= 2
                 /\ SubSeq(log, Len(log) - 1, Len(log)) = <<"cmd_error", "traceback">>
                 /\ (MarkerPresent /\ ~MarkerAtStart) => cmds[i].op = "reboot"
                 /\ cmds[i].op # "reboot" => markerWrite = "none"

\* C4 witness: the join command exited non-zero and the run is over
C4_Witness ==
    /\ pc = "exited"
    /\ cmds # <<>>
    /\ cmds[Len(cmds)] = [op |-> "zerotier_join", rc |-> "nonzero"]

\* C5: a run that fails a gate check (directory hygiene, host identity,
\* desktop session, unreadable identity source) exits with status 1 having
\* logged nothing: no log file or log folder created, no log file evicted, no
\* command issued, the marker as it was.  No run gets past a failed check.
C5_GateFailureIsQuiet ==
    /\ GateFailed =>
         /\ pc = "exited"
         /\ exitCode = 1
         /\ log = <<>>
         /\ logFiles = logFiles0
         /\ (LOG_FOLDER \in dirEntries <=> LOG_FOLDER \in dirEntries0)
         /\ (MarkerPresent <=> MarkerAtStart)
         /\ cmds = <<>>
         /\ branch = "none"
    /\ os_release = Unreadable => exitReason = "os_unreadable"
    /\ ("identity" \notin validated /\ os_release.status = "read")
         => exitReason = "os_identity"
    /\ ("identity" \in validated /\ "desktop" \notin validated) => exitReason = "desktop"
    /\ (pc \notin {"idle", "exited", "disclaimer", "gpl", "hygiene"} \/ GateFailed)
         => (NOTES_FILE \in dirEntries <=> exitReason = "hygiene")

\* C5 witness: a gate failure in a run that found three log files
C5_Witness ==
    /\ exitReason = "desktop"
    /\ Cardinality(logFiles0) >= LogRetention

\* C6 as stated: before the three gate checks have passed, no file of the
\* script directory is created and nothing external is done.
C6_AsStated ==
    validated # GateChecks =>
        /\ dirEntries = dirEntries0
        /\ logFiles = logFiles0
        /\ cmds = <<>>

\* C6 amended: before the three gate checks have passed, the only side
\* effect of a run is the download of the license file when it is missing (a
\* network fetch that creates GPLv3.txt in the script directory); no log
\* folder or log file is created or removed, nothing is logged, no command
\* is issued, no branch is selected and the marker is not written.
C6_OnlyLicenseBeforeGate ==
    validated # GateChecks =>
        /\ dirEntries0 \subseteq dirEntries
        /\ dirEntries \ dirEntries0 \subseteq {GPL_FILENAME}
        /\ logFiles = logFiles0
        /\ log = <<>>
        /\ cmds = <<>>
        /\ branch = "none"
        /\ markerWrite = "none"

\* C6 witness: the license file has been downloaded and the directory check
\* is still to run
C6_Witness ==
    /\ pc = "hygiene"
    /\ validated = {}
    /\ GPL_FILENAME \in dirEntries
    /\ GPL_FILENAME \notin dirEntries0

C8_AtMostThree == Cardinality(logFiles) <= LogRetention

\* C9: an empty text at the network-identifier prompt (empty once stripped)
\* ends the run at once with status 1: no join and no reboot command is
\* issued, the marker is not written; the join is only ever issued with a
\* non-empty identifier.
C9_EmptyIdAborts ==
    /\ exitReason = "empty_network_id" =>
         /\ pc = "exited"
         /\ exitCode = 1
         /\ network_id = <<>>
         /\ ~Issued("zerotier_join")
         /\ ~Issued("reboot")
         /\ cmds[Len(cmds)].op = "zerotier_bootstrap"
         /\ markerWrite = "none"
         /\ ~MarkerPresent
         /\ "unexpected" \notin Range(log)
    /\ (pc \in {"join", "marker", "reboot_prompt", "reboot"} \/ Issued("zerotier_join"))
         => network_id # <<>>
    /\ (cmds # <<>> /\ cmds[Len(cmds)].op = "zerotier_join") =>
         (lastArg = network_id /\ lastArg # <<>>)

\* C9 witness: the run ended at the empty-identifier abort
C9_Witness == pc = "exited" /\ exitReason = "empty_network_id"

\* C10: a run ends with status 0 exactly when main returns (gate passed, the
\* selected branch ran to its last command, which returned) and with status 1
\* at every other exit: gate failure, failed download, failed command, empty
\* identifier, exception.  No other status arises.
C10_ExitCodes ==
    /\ pc = "exited" => exitCode \in {0, 1}
    /\ pc \notin {"exited"} => (exitCode = NoExit /\ exitReason = "none")
    /\ pc = "exited" =>
         exitReason \in {"done", "uncaught", "gpl_download", "hygiene", "os_unreadable",
                         "os_identity", "desktop", "command_failed", "empty_network_id",
                         "unexpected"}
    /\ exitCode = 0 <=> exitReason = "done"
    /\ exitCode = 0 =>
         /\ validated = GateChecks
         /\ branch # "none"
         /\ cmds # <<>>
         /\ \A i \in DOMAIN cmds :
              cmds[i].rc = "ok" \/ cmds[i] = [op |-> "flatpak_list", rc |-> "nonzero"]
         /\ cmds[Len(cmds)].op = (IF branch = "initial_setup" THEN "reboot" ELSE "flatpak_update")
    /\ (cmds # <<>> /\ cmds[Len(cmds)] \in {[op |-> "reboot", rc |-> "ok"],
                                            [op |-> "flatpak_update", rc |-> "ok"]})
         => exitCode = 0

\* C10 witness: an initial_setup run that ended with status 0
C10_Witness == pc = "exited" /\ exitCode = 0 /\ branch = "initial_setup"

-----------------------------------------------------------------------------
(* C11: the host-identity check *)

\* the fields of the os-release file the run read, as the file gives them
IdField == os_info_get(os_release.lines, <<"I", "D">>)
VersionField == os_info_get(os_release.lines, <<"V", "E", "R", "S", "I", "O", "N", "_", "I", "D">>)
Debian == <<"d", "e", "b", "i", "a", "n">>
Twelve == <<"1", "2">>

\* C11 as stated: every os-release file whose ID is not "debian" or whose
\* VERSION_ID is not "12" fails the host-identity check.  ID=Debian passes.
C11_AsStated ==
    (os_release.status = "read" /\ (IdField # Debian \/ VersionField # Twelve))
        => "identity" \notin validated

\* C11: the host-identity check passes exactly for the files whose ID,
\* letter case set aside, is "debian" and whose VERSION_ID is "12", whatever
\* other fields they hold; for every other file the run exits with status 1.
C11_HostIdentity ==
    os_release.status = "read" =>
        IF lower(IdField) = Debian /\ VersionField = Twelve
        THEN "identity" \in validated /\ exitReason # "os_identity"
        ELSE "identity" \notin validated /\ exitReason = "os_identity" /\ exitCode = 1

C11_Witness ==
    /\ os_release.status = "read"
    /\ os_release.lines = <<LineComment, LineIdDebian, LineIdLike, LineVersion12>>
    /\ "identity" \in validated

-----------------------------------------------------------------------------
(* C12: directory hygiene *)

\* the entries of the script directory whose name does not begin with a dot
Visible(listing) == {item \in listing : Head(item) # "."}
AllowedEntries == {SCRIPT_NAME, LOG_FOLDER, GPL_FILENAME}

\* C12: the hygiene check passes when every visible entry of the script
\* directory is the script, the log folder or the license file, and ends
\* the run with status 1 when another visible entry exists; hidden entries
\* do not count.  (Between the check and the end of the run the program adds
\* only the log folder and the hidden marker to the directory.)
C12_Hygiene ==
    /\ exitReason = "hygiene" =>
         exitCode = 1 /\ ~(Visible(dirEntries) \subseteq AllowedEntries)
    /\ "hygiene" \in validated => Visible(dirEntries) \subseteq AllowedEntries
    /\ (pc \notin {"idle", "disclaimer", "gpl", "hygiene"}
        /\ exitReason \notin {"uncaught", "gpl_download"})
         => ("hygiene" \in validated \/ exitReason = "hygiene")

C12_Witness ==
    /\ "hygiene" \in validated
    /\ HIDDEN_DIR \in dirEntries
    /\ GPL_FILENAME \in dirEntries

-----------------------------------------------------------------------------
(* C13: the OS packages of initial_setup *)

\* position of the last command issued, and how often `op` was issued
LastIs(op) == cmds # <<>> /\ cmds[Len(cmds)].op = op
CountOp(op) == Cardinality({i \in DOMAIN cmds : cmds[i].op = op})

\* the probe results and missing_apt are live: probed, not yet dropped
AptPhase ==
    branch = "initial_setup" /\ pc # "probe" /\ ~Issued("flatpak_remote_add")

\* s lists members of the sequence tbl in the order of tbl, once each
InTableOrder(s, tbl) ==
    /\ \A k \in DOMAIN s : \E i \in DOMAIN tbl : tbl[i] = s[k]
    /\ \A k, l \in DOMAIN s :
         k < l => (CHOOSE i \in DOMAIN tbl : tbl[i] = s[k]) < (CHOOSE i \in DOMAIN tbl : tbl[i] = s[l])

AptPackages == [i \in DOMAIN APT_REQUIREMENTS |-> APT_REQUIREMENTS[i].package]
FlatpakIds == [i \in DOMAIN FLATPAK_REQUIREMENTS |-> FLATPAK_REQUIREMENTS[i].id]

\* C13: in initial_setup the missing packages are exactly those of the
\* table whose command the probe did not find; the first command of the
\* branch is the index refresh and the second the upgrade, whatever is
\* missing; the install command is issued exactly when a package is
\* missing, as the third command, and names exactly the missing packages.
C13_AptPackages ==
    branch = "initial_setup" =>
        /\ AptPhase =>
             /\ \A i \in DOMAIN APT_REQUIREMENTS :
                  (APT_REQUIREMENTS[i].command \notin apt_present)
                     <=> (APT_REQUIREMENTS[i].package \in Range(missing_apt))
             /\ InTableOrder(missing_apt, AptPackages)
        /\ Len(cmds) >= 1 => cmds[1].op = "apt_update"
        /\ Len(cmds) >= 2 => cmds[1].rc = "ok" /\ cmds[2].op = "apt_upgrade"
        /\ \A i \in DOMAIN cmds :
             cmds[i].op = "apt_install" => i = 3 /\ cmds[2].rc = "ok"
        /\ LastIs("apt_install") => missing_apt # <<>> /\ lastArg = missing_apt
        /\ pc = "remote_add" => (Issued("apt_install") <=> missing_apt # <<>>)

C13_Witness ==
    /\ pc = "remote_add"
    /\ LastIs("apt_install")
    /\ apt_present = {}
    /\ Len(missing_apt) = Len(APT_REQUIREMENTS)

-----------------------------------------------------------------------------
(* C14: the sandboxed applications of initial_setup *)

\* the query returned and its results are live
FlatpakPhase ==
    /\ branch = "initial_setup"
    /\ \E i \in DOMAIN cmds : cmds[i].op = "flatpak_list" /\ cmds[i].rc # "oserror"
    /\ ~Issued("zerotier_bootstrap")

\* C14: with S the ids the query listed (nothing, when the query fails),
\* the applications installed are exactly those of the table whose id is not
\* in S: one command each, in table order, after the repository was added
\* and the query made; when S holds every id of the table no install
\* command is issued.
C14_FlatpakApps ==
    /\ FlatpakPhase =>
         /\ \A i \in DOMAIN FLATPAK_REQUIREMENTS :
              (FLATPAK_REQUIREMENTS[i].id \notin installed_flatpaks)
                 <=> (FLATPAK_REQUIREMENTS[i].id \in Range(missing_flatpaks))
         /\ InTableOrder(missing_flatpaks, FlatpakIds)
         /\ CountOp("flatpak_install") <= Len(missing_flatpaks)
         /\ LastIs("flatpak_install") =>
              lastArg = <<missing_flatpaks[CountOp("flatpak_install")]>>
         /\ pc = "zerotier" => CountOp("flatpak_install") = Len(missing_flatpaks)
    /\ \A i \in DOMAIN cmds :
         cmds[i].op = "flatpak_install" =>
            /\ \E j \in 1..(i - 1) : cmds[j].op = "flatpak_remote_add" /\ cmds[j].rc = "ok"
            /\ \E j \in 1..(i - 1) : cmds[j].op = "flatpak_list" /\ cmds[j].rc # "oserror"
            /\ \A j \in 1..(i - 1) :
                 cmds[j].op = "flatpak_install" => cmds[j].rc = "ok"

C14_Witness ==
    /\ pc = "zerotier"
    /\ installed_flatpaks = {FLATPAK_REQUIREMENTS[1].id, OTHER_APP_ID}
    /\ CountOp("flatpak_install") = Len(FLATPAK_REQUIREMENTS) - 1
    /\ lastArg = <<FLATPAK_REQUIREMENTS[Len(FLATPAK_REQUIREMENTS)].id>>

-----------------------------------------------------------------------------
(* C15: the overlay bootstrap *)

\* C15: the output of the fetch step is piped to `sudo bash` only when it
\* is not empty, and `sudo bash` is not reached when the key import fails.
\* The shell line tests the exit status of `curl .. | gpg`, not its output:
\* when gpg exits with status 0 and prints nothing, `echo "$z" | sudo bash`
\* still runs.
C15_PipedOnlyWhenNonEmpty ==
    LastIs("zerotier_bootstrap") =>
        /\ lastArg[4] # "skipped" => lastArg[3] = "nonempty"
        /\ lastArg[1] # "ok" => lastArg[4] = "skipped"

-----------------------------------------------------------------------------
(* C16: failures that are only warnings *)

\* in this run setup_logging found three or more log files and could not
\* remove the oldest of them
EvictionFailedThisRun ==
    /\ validated = GateChecks
    /\ pc # "logging"
    /\ Cardinality(logFiles0) >= LogRetention
    /\ (CHOOSE f \in logFiles0 : \A g \in logFiles0 : f <= g) \in logFiles

MarkerWriteFailed == markerWrite \in {"fail_open", "fail_write"}

\* C16: when the oldest log file cannot be removed, setup_logging still
\* opens the new log file and the run reaches branch selection; when the
\* completion marker cannot be written, initial_setup still reaches the
\* reboot prompt and, once the prompt is answered, the reboot command, and
\* the run ends with status 1 only if the prompt meets end of input or the
\* reboot command fails.
C16_WarningsDoNotAbort ==
    /\ EvictionFailedThisRun =>
         /\ created # <<>> /\ created[Len(created)] \in logFiles
         /\ logFiles # logFiles0 \/ collided
         /\ pc = "select" \/ branch # "none"
    /\ MarkerWriteFailed =>
         /\ pc \in {"reboot_prompt", "reboot", "exited"}
         /\ pc = "exited" =>
              /\ "reboot" \in answered \/ "reboot_eof" \in answered
              /\ "reboot" \in answered => LastIs("reboot")
              /\ exitCode = 1 =>
                   \/ "reboot_eof" \in answered
                   \/ LastIs("reboot") /\ cmds[Len(cmds)].rc # "ok"

C16_Witness ==
    /\ evictFailed
    /\ EvictionFailedThisRun
    /\ markerWrite = "fail_open"
    /\ pc = "exited"
    /\ exitCode = 0
    /\ LastIs("reboot")

-----------------------------------------------------------------------------
(* C17: update_system *)

UpdateCommands == <<"apt_update", "apt_upgrade", "flatpak_update">>

\* C17: update_system issues the index refresh, the upgrade and the
\* sandboxed-application update, in that order and nothing else (a command
\* that fails ends the run, so a run that fails has issued a prefix of the
\* three and a run that ends with status 0 all three); it neither writes
\* nor removes the marker and asks for no network identifier.
C17_UpdateSystemOnly ==
    branch = "update_system" =>
        /\ Len(cmds) <= Len(UpdateCommands)
        /\ \A i \in DOMAIN cmds : cmds[i].op = UpdateCommands[i]
        /\ \A i \in 1..(Len(cmds) - 1) : cmds[i].rc = "ok"
        /\ (pc = "exited" /\ exitCode = 0) => Len(cmds) = Len(UpdateCommands)
        /\ (Len(cmds) = Len(UpdateCommands) /\ cmds[Len(cmds)].rc = "ok") => exitCode = 0
        /\ markerWrite = "none"
        /\ MarkerAtStart /\ MarkerPresent
        /\ dirEntries \ {LOG_FOLDER, GPL_FILENAME} = dirEntries0 \ {LOG_FOLDER, GPL_FILENAME}
        /\ answered = {"disclaimer"}
        /\ network_id = <<>>

C17_Witness ==
    /\ branch = "update_system"
    /\ pc = "exited"
    /\ exitCode = 0
    /\ Len(cmds) = 3

-----------------------------------------------------------------------------
(* C18: the handler of main *)

\* the log ends with the two entries of main's handler (lines 384-385)
LoggedUnexpected ==
    /\ Len(log) >= 2
    /\ SubSeq(log, Len(log) - 1, Len(log)) = <<"unexpected", "traceback">>

\* C18: an external program that cannot be started, or a prompt of a branch
\* that meets end of input, is caught by main's handler: it is logged, the
\* process ends with status 1 and no later statement of the branch runs.
\* A command's non-zero exit and the empty network identifier end the run
\* through sys.exit(1), which the handler does not catch and does not log
\* as unexpected.
C18_TopLevelHandler ==
    /\ exitReason = "unexpected" =>
         /\ pc = "exited" /\ exitCode = 1 /\ branch # "none"
         /\ LoggedUnexpected
         /\ \/ cmds # <<>> /\ cmds[Len(cmds)].rc = "oserror"
            \/ "network_id_eof" \in answered
            \/ "reboot_eof" \in answered
    /\ \A i \in DOMAIN cmds :
         cmds[i].rc = "oserror" => i = Len(cmds) /\ exitReason = "unexpected"
    /\ "network_id_eof" \in answered =>
         exitReason = "unexpected" /\ LastIs("zerotier_bootstrap")
    /\ "reboot_eof" \in answered =>
         exitReason = "unexpected" /\ LastIs("zerotier_join")
    /\ exitReason \in {"command_failed", "empty_network_id"} =>
         /\ pc = "exited" /\ exitCode = 1
         /\ "unexpected" \notin Range(log)
    /\ \A i \in DOMAIN cmds :
         (cmds[i].rc = "nonzero" /\ cmds[i].op # "flatpak_list") =>
            i = Len(cmds) /\ exitReason = "command_failed"
    /\ ("network_id" \in answered /\ network_id = <<>>) => exitReason = "empty_network_id"

C18_Witness ==
    /\ exitReason = "unexpected"
    /\ LastIs("zerotier_join")
    /\ cmds[Len(cmds)].rc = "oserror"
    /\ LoggedUnexpected

-----------------------------------------------------------------------------
(* C19: the program's own files and the hygiene check *)

\* what the program itself may leave in the script directory
OwnArtifacts == {GPL_FILENAME, LOG_FOLDER, MARKER_FILE}

\* C19: the script directory only ever gains the license file, the log
\* folder and the marker, and none of them makes the hygiene check fail:
\* as long as no foreign visible entry is in the directory the check does
\* not fail, in any run, however the earlier runs ended.
C19_OwnArtifactsPassHygiene ==
    /\ dirEntries \subseteq {SCRIPT_NAME, NOTES_FILE, HIDDEN_DIR} \cup OwnArtifacts
    /\ NOTES_FILE \notin dirEntries => exitReason # "hygiene"
    /\ (NOTES_FILE \notin dirEntries /\ pc \in {"osdesk", "logging", "select"})
         => "hygiene" \in validated

C19_Witness ==
    /\ OwnArtifacts \subseteq dirEntries0
    /\ HIDDEN_DIR \notin dirEntries0
    /\ logFiles0 # {}
    /\ prev # "none"
    /\ "hygiene" \in validated

-----------------------------------------------------------------------------
(* C20: the reboot *)

\* C20: the reboot command is issued only in initial_setup, only after the
\* join command succeeded, the marker write was attempted and the reboot
\* prompt was answered; it is the last command of the run, so it is issued
\* at most once.
C20_RebootLast ==
    \A i \in DOMAIN cmds :
        cmds[i].op = "reboot" =>
            /\ i = Len(cmds)
            /\ pc = "exited"
            /\ branch = "initial_setup"
            /\ \E j \in 1..(i - 1) : cmds[j].op = "zerotier_join" /\ cmds[j].rc = "ok"
            /\ markerWrite # "none"
            /\ "reboot" \in answered

C20_Witness ==
    /\ LastIs("reboot")
    /\ cmds[Len(cmds)].rc = "ok"
    /\ markerWrite = "ok"
    /\ MarkerPresent
    /\ exitCode = 0

=============================================================================
